---- MODULE Spec2Model ----
(***************************************************************************)
(* Model of the feed-diff and download pipeline of gopodgrab:              *)
(*   pod.New / Podcast.refreshFeed / Podcast.NewEpisodes /                 *)
(*   Podcast.readStore / Podcast.DownloadEpisodes / download               *)
(*   (src/pod/podcast.go) and updateCmd.RunE / updatePods                  *)
(*   (src/cmd/update.go).                                                  *)
(*                                                                         *)
(* Strings that the code inspects character by character (file names,     *)
(* titles, URL paths) are sequences of one-character strings, so that      *)
(* filepath.Ext and strings.TrimSuffix are computed as the library does.   *)
(***************************************************************************)
EXTENDS Integers, Sequences, FiniteSets, TLC

(* ------------------------------ bounds -------------------------------- *)
MaxArgs == 2      \* longest argument list of one update command
MaxFeedLen == 2   \* most episodes in one feed document
MaxBytes == 1     \* largest media response body, in bytes

(* ----------------------------- constants ------------------------------ *)
ReservedPodName == "all"
feedFileName == <<"f", "e", "e", "d", ".", "z", "i", "p">>

Pods == {"p1", "p2"}          \* names a podcast can be registered under
NoPod == "-"

(* ------------------------- path/filepath, strings --------------------- *)
\* filepath.Ext: the suffix beginning at the final dot in the final
\* element of path; empty if there is no dot.
RECURSIVE ExtFrom(_, _)
ExtFrom(path, i) ==
    IF i < 1 THEN <<>>
    ELSE IF path[i] = "/" THEN <<>>
    ELSE IF path[i] = "." THEN SubSeq(path, i, Len(path))
    ELSE ExtFrom(path, i - 1)

Ext(path) == ExtFrom(path, Len(path))

HasSuffix(s, suffix) ==
    /\ Len(s) >= Len(suffix)
    /\ SubSeq(s, Len(s) - Len(suffix) + 1, Len(s)) = suffix

TrimSuffix(s, suffix) ==
    IF HasSuffix(s, suffix) THEN SubSeq(s, 1, Len(s) - Len(suffix)) ELSE s

(* ------------------------------ episodes ------------------------------ *)
\* Episode: Title, File.URL, File.Size (advertised), Bytes (transferred).
\* File.URL is kept as the outcome of url.Parse: ok = FALSE for a URL that
\* does not parse, else path = u.Path.
Episode(title, urlok, path, size) ==
    [Title |-> title, URLok |-> urlok, Path |-> path, Size |-> size, Bytes |-> 0]

EpPlain == Episode(<<"a">>, TRUE, <<"/", "a", ".", "m">>, 1)
EpDotted == Episode(<<"a", ".", "b">>, TRUE, <<"/", "d", ".", "x", "/", "a">>, 2)
EpFeed == Episode(<<"f", "e", "e", "d">>, TRUE, <<"/", "f", ".", "z", "i", "p">>, 3)
EpBadURL == Episode(<<"c">>, FALSE, <<>>, 4)

\* The episodes a feed server publishes, oldest first; a feed document lists
\* up to MaxFeedLen consecutive ones.  The catalogue holds a title twice.
Catalogue == <<EpPlain, EpPlain, EpDotted, EpFeed, EpBadURL>>

Windows(n) ==
    {SubSeq(Catalogue, w[1], w[1] + w[2] - 1) :
        w \in {x \in (1..Len(Catalogue)) \X (0..n) : x[1] + x[2] - 1 <= Len(Catalogue)}}

\* A feed document: parseFeed either fails on it or yields its episodes.
Doc(ok, eps) == [ok |-> ok, eps |-> eps]
Garbage == Doc(FALSE, <<EpPlain>>)
Docs == {Doc(TRUE, eps) : eps \in Windows(MaxFeedLen)} \cup {Garbage}

(* ------------------------------ the disk ------------------------------ *)
\* A file is a zip archive with its entries, a plain file of some bytes, or
\* the remains of an archive whose writing was cut short.
ZipFile(entries) == [kind |-> "zip", entries |-> entries, bytes |-> 0]
RawFile(n) == [kind |-> "raw", entries |-> <<>>, bytes |-> n]
PartialFile == [kind |-> "partial", entries |-> <<>>, bytes |-> 0]

NoFiles == [n \in {} |-> RawFile(0)]
NoDir == [exists |-> FALSE, files |-> NoFiles]

Put(files, name, c) ==
    [n \in (DOMAIN files) \cup {name} |-> IF n = name THEN c ELSE files[n]]

VARIABLES
    registry,   \* names of the managed podcasts (the configuration file)
    disk,       \* disk[p]: the storage directory of podcast p
    pc,         \* position of the command: "idle", "diff", "download", "done"
    pods,       \* updatePods: the target list
    idx,        \* updatePods: index of the diff loop
    newEps,     \* updatePods: map podcast -> new episodes; pod.Get and
                \* pod.List hand out one *Podcast per name, so the name is the key
    todo,       \* updatePods: podcasts the download range loop has not visited
    cur,        \* updatePods: podcast of the running DownloadEpisodes call
    epi,        \* DownloadEpisodes: index into eps
    result,     \* what the command returned: "none", "ok", "err"
    log,        \* network requests, diffs, prompts and prints of the command
    disk0,      \* the disk when the command started
    cmd,        \* the command that runs: "", "add" (pod.New) or "update"
    allAt,      \* update: the place of the first "all" among the arguments, or 0
    registry0,  \* the managed podcasts when the command started
    fetched     \* refreshFeed: the body of the response to the feed request

vars == <<registry, disk, pc, pods, idx, newEps, todo, cur, epi, result, log, disk0, cmd,
          allAt, registry0, fetched>>

NoEps == [p \in {} |-> <<>>]

\* One observable event of a command.
Ev(op, pod, k, name, fetch, created, err, n, total) ==
    [op |-> op, pod |-> pod, k |-> k, name |-> name, fetch |-> fetch,
     created |-> created, err |-> err, n |-> n, total |-> total]

\* The storage directories a command can find when it starts: none, or a
\* directory with or without a snapshot (an archive of one document, an
\* archive without entries, a cut-short archive, a media file stored under
\* the snapshot's name) and with some media files of earlier downloads.
Dir(files) == [exists |-> TRUE, files |-> files]

SnapChoices ==
    {NoFiles}
      \cup {Put(NoFiles, feedFileName, ZipFile(<<d>>)) : d \in Docs}
      \cup {Put(NoFiles, feedFileName, c) : c \in {ZipFile(<<>>), PartialFile, RawFile(1)}}

StoredNames == {EpPlain.Title \o Ext(EpPlain.Path), EpDotted.Title \o Ext(EpDotted.Path)}

Dirs ==
    {NoDir} \cup
    {Dir([n \in (DOMAIN snap) \cup st |-> IF n \in st THEN RawFile(1) ELSE snap[n]]) :
        snap \in SnapChoices, st \in SUBSET StoredNames}

\* The second podcast's directory is drawn from a few of them.
FewDirs ==
    {NoDir,
     Dir(Put(NoFiles, feedFileName, ZipFile(<<Doc(TRUE, <<EpPlain, EpDotted>>)>>))),
     Dir(Put(NoFiles, feedFileName, ZipFile(<<Doc(TRUE, <<>>)>>))),
     Dir(Put(NoFiles, feedFileName, ZipFile(<<Garbage>>)))}

Init ==
    /\ registry \in SUBSET Pods
    /\ disk \in {[p \in Pods |-> IF p = "p1" THEN d1 ELSE d2] : d1 \in Dirs, d2 \in FewDirs}
    /\ pc = "idle"
    /\ pods = <<>>
    /\ idx = 1
    /\ newEps = NoEps
    /\ todo = {}
    /\ cur = NoPod
    /\ epi = 1
    /\ result = "none"
    /\ log = <<>>
    /\ disk0 = disk
    /\ cmd = ""
    /\ allAt = 0
    /\ registry0 = registry
    /\ fetched = Garbage

(* ---------------------------- Podcast methods ------------------------- *)
\* What the feed server answers to http.Get(pod.FeedURL), and where the
\* write path of refreshFeed stops.  http.Get returns an error only when no
\* response arrives; a response of any status comes back with err == nil.
FeedFetches ==
    {[fetch |-> "transport", body |-> Garbage]}
      \cup {[fetch |-> "status404", body |-> Garbage]}
      \cup {[fetch |-> "status200", body |-> d] : d \in Docs}

RefreshStops == {"mkdir", "create", "entry", "copy", "close", "none"}

\* storeExists: os.MkdirAll creates the directory if it is absent.
storeExists(dir) == [dir EXCEPT !.exists = TRUE]

\* Mutant of refreshFeedDir: the document is added to the archive found.
refreshFeedDirAppends(dir, f, stop) ==
    IF f.fetch = "transport" THEN dir
    ELSE IF stop = "mkdir" THEN dir
    ELSE IF stop = "create" THEN storeExists(dir)
    ELSE IF stop = "entry" THEN
        [storeExists(dir) EXCEPT !.files = Put(dir.files, feedFileName, RawFile(0))]
    ELSE IF stop \in {"copy", "close"} THEN
        [storeExists(dir) EXCEPT !.files = Put(dir.files, feedFileName, PartialFile)]
    ELSE
        [storeExists(dir) EXCEPT !.files =
            Put(dir.files, feedFileName,
                ZipFile((IF feedFileName \in DOMAIN dir.files
                         THEN dir.files[feedFileName].entries ELSE <<>>) \o <<f.body>>))]

\* refreshFeed: the directory of the podcast after the call.
refreshFeedDir(dir, f, stop) ==
    IF f.fetch = "transport" THEN dir
    ELSE IF stop = "mkdir" THEN dir
    ELSE IF stop = "create" THEN storeExists(dir)
    ELSE IF stop = "entry" THEN
        [storeExists(dir) EXCEPT !.files = Put(dir.files, feedFileName, RawFile(0))]
    ELSE IF stop \in {"copy", "close"} THEN
        [storeExists(dir) EXCEPT !.files = Put(dir.files, feedFileName, PartialFile)]
    ELSE
        [storeExists(dir) EXCEPT !.files = Put(dir.files, feedFileName, ZipFile(<<f.body>>))]

\* refreshFeed gets as far as a successful os.Create(pod.feedFile()).
refreshFeedCreates(f, stop) ==
    f.fetch # "transport" /\ stop \notin {"mkdir", "create"}

\* refreshFeed: TRUE iff the call returns an error.
refreshFeedErr(f, stop) == f.fetch = "transport" \/ stop # "none"

\* Mutant of readStore: the snapshot file is not skipped.
readStoreKeepsFeedFile(dir) ==
    {TrimSuffix(e, Ext(e)) : e \in DOMAIN dir.files}

\* readStore: the set of stored names without extension, feed.zip skipped.
readStore(dir) ==
    {TrimSuffix(e, Ext(e)) : e \in {n \in DOMAIN dir.files : n # feedFileName}}

\* readStore fails when the directory cannot be opened.
readStoreErr(dir) == ~dir.exists

\* The loop of NewEpisodes over feedEpis[1..n], appending the episodes whose
\* title is not stored.
RECURSIVE DiffLoop(_, _, _)
DiffLoop(feedEpis, stored, n) ==
    IF n = 0 THEN <<>>
    ELSE LET before == DiffLoop(feedEpis, stored, n - 1)
         IN IF feedEpis[n].Title \notin stored
            THEN Append(before, feedEpis[n])
            ELSE before

\* Mutant of NewEpisodes: an archive without entries is an empty feed, and
\* a feed that fails to parse gives the episodes read before the failure.
NewEpisodesKeepsGoing(dir) ==
    IF readStoreErr(dir) THEN [err |-> "store", eps |-> <<>>]
    ELSE IF feedFileName \notin DOMAIN dir.files THEN [err |-> "open", eps |-> <<>>]
    ELSE IF dir.files[feedFileName].kind # "zip" THEN [err |-> "open", eps |-> <<>>]
    ELSE LET arc == dir.files[feedFileName].entries
         IN IF Len(arc) < 1 THEN [err |-> "", eps |-> <<>>]
            ELSE IF ~arc[1].ok
            THEN [err |-> "parse",
                  eps |-> DiffLoop(arc[1].eps, readStore(dir), Len(arc[1].eps))]
            ELSE [err |-> "", eps |-> DiffLoop(arc[1].eps, readStore(dir), Len(arc[1].eps))]

\* NewEpisodes: err is one of "", "store", "open", "empty", "parse".
NewEpisodes(dir) ==
    IF readStoreErr(dir) THEN [err |-> "store", eps |-> <<>>]
    ELSE IF feedFileName \notin DOMAIN dir.files THEN [err |-> "open", eps |-> <<>>]
    ELSE IF dir.files[feedFileName].kind # "zip" THEN [err |-> "open", eps |-> <<>>]
    ELSE LET arc == dir.files[feedFileName].entries
         IN IF Len(arc) < 1 THEN [err |-> "empty", eps |-> <<>>]
            ELSE IF ~arc[1].ok THEN [err |-> "parse", eps |-> <<>>]
            ELSE [err |-> "", eps |-> DiffLoop(arc[1].eps, readStore(dir), Len(arc[1].eps))]

(* -------------------------------- pod.New ----------------------------- *)
\* Mutant of New: a name that is already managed is not turned away.
NewSkipsExistsCheck(name, f, stop, addOk) ==
    /\ pc = "idle"
    /\ pc' = "done"
    /\ cmd' = "add"
    /\ UNCHANGED <<pods, idx, newEps, todo, cur, epi, disk0, allAt, registry0>>
    /\ IF name = ReservedPodName
       THEN /\ result' = "err"
            /\ UNCHANGED <<registry, disk, log, fetched>>
       ELSE /\ disk' = [disk EXCEPT ![name] = refreshFeedDir(disk[name], f, stop)]
            /\ fetched' = f.body
            /\ log' = Append(log, Ev("refresh", name, 0, <<>>, f.fetch,
                                     refreshFeedCreates(f, stop),
                                     refreshFeedErr(f, stop), 0, 0))
            /\ IF refreshFeedErr(f, stop) \/ ~addOk
               THEN result' = "err" /\ UNCHANGED registry
               ELSE result' = "ok" /\ registry' = registry \cup {name}

\* New(name, feedURL, storageDir): the storage directory of a podcast is the
\* one dedicated to its name; addOk is whether addPod can write the
\* configuration.
New(name, f, stop, addOk) ==
    /\ pc = "idle"
    /\ pc' = "done"
    /\ cmd' = "add"
    /\ UNCHANGED <<pods, idx, newEps, todo, cur, epi, disk0, allAt, registry0>>
    /\ IF name = ReservedPodName \/ name \in registry
       THEN /\ result' = "err"
            /\ UNCHANGED <<registry, disk, log, fetched>>
       ELSE /\ disk' = [disk EXCEPT ![name] = refreshFeedDir(disk[name], f, stop)]
            /\ fetched' = f.body
            /\ log' = Append(log, Ev("refresh", name, 0, <<>>, f.fetch,
                                     refreshFeedCreates(f, stop),
                                     refreshFeedErr(f, stop), 0, 0))
            /\ IF refreshFeedErr(f, stop) \/ ~addOk
               THEN result' = "err" /\ UNCHANGED registry
               ELSE result' = "ok" /\ registry' = registry \cup {name}

(* ------------------------------ download ------------------------------ *)
\* What the media server answers to http.Get(u.String()): no response, or a
\* response of some status with a body of n bytes; and where the write path
\* of download stops, a cut-short copy having written w < n bytes.
MediaFetches ==
    {[fetch |-> "transport", n |-> 0]}
      \cup {[fetch |-> "status200", n |-> n] : n \in 1..MaxBytes}
      \cup {[fetch |-> "status404", n |-> 1]}

DownloadStops(n) ==
    {[at |-> "create", w |-> 0], [at |-> "none", w |-> n]}
      \cup {[at |-> "copy", w |-> w] : w \in 0..(n - 1)}

\* The name of the file download writes: e.Title + filepath.Ext(u.Path).
fileName(e) == e.Title \o Ext(e.Path)

\* download gets as far as http.Get.
downloadRequests(e) == e.URLok

\* Mutant of downloadCreates: the file is created before the GET.
downloadCreatesEarly(e, m, stop) ==
    e.URLok /\ stop.at # "create"

\* download gets as far as a successful os.Create.
downloadCreates(e, m, stop) ==
    e.URLok /\ m.fetch # "transport" /\ stop.at # "create"

\* download returns an error.
downloadErr(e, m, stop) ==
    ~e.URLok \/ m.fetch = "transport" \/ stop.at # "none"

\* Mutant of downloadDir: creating the file wipes the rest of the directory.
downloadDirWipes(dir, e, m, stop) ==
    IF downloadCreates(e, m, stop)
    THEN [dir EXCEPT !.files = Put(NoFiles, fileName(e), RawFile(stop.w))]
    ELSE dir

\* download: the directory after the call.
downloadDir(dir, e, m, stop) ==
    IF downloadCreates(e, m, stop)
    THEN [dir EXCEPT !.files = Put(dir.files, fileName(e), RawFile(stop.w))]
    ELSE dir

\* download: the episode after the call (e.Bytes = n).
downloadEpisode(e, m, stop) ==
    IF downloadErr(e, m, stop) THEN e ELSE [e EXCEPT !.Bytes = stop.w]

(* ------------------------------ updateCmd ------------------------------ *)
\* The *Podcast that the registry map holds under a name: the registry is one
\* package-wide map by name, so every lookup of a name yields the same
\* podcast, which the name stands for.
PodOf(name) == name

\* pod.List: the managed podcasts, in the order the map iteration yields.
RECURSIVE Listings(_)
Listings(S) ==
    IF S = {} THEN {<<>>}
    ELSE UNION {{<<x>> \o l : l \in Listings(S \ {x})} : x \in S}

\* Mutant of Resolve: "all" adds the listed podcasts to those named before it.
RECURSIVE ResolveKeepsEarlier(_, _, _, _, _, _)
ResolveKeepsEarlier(args, i, acc, all, conf, calls) ==
    IF i > Len(args) THEN [err |-> FALSE, pods |-> acc, calls |-> calls]
    ELSE IF args[i] = ReservedPodName
    THEN [err |-> ~conf, pods |-> IF conf THEN acc \o all ELSE <<>>,
          calls |-> Append(calls, Ev("list", NoPod, i, <<>>, "", FALSE, ~conf, 0, 0))]
    ELSE IF ~conf \/ args[i] \notin registry
    THEN [err |-> TRUE, pods |-> <<>>,
          calls |-> Append(calls, Ev("get", args[i], i, <<>>, "", FALSE, TRUE, 0, 0))]
    ELSE ResolveKeepsEarlier(args, i + 1, Append(acc, args[i]), all, conf,
                 Append(calls, Ev("get", args[i], i, <<>>, "", FALSE, FALSE, 0, 0)))

\* The loop of RunE over args[i..]: the target list handed to updatePods or
\* the error of pod.List or pod.Get, and the calls to pod.List and pod.Get
\* made.  conf: readPods can read the configuration file; all: what pod.List
\* returns then.
RECURSIVE Resolve(_, _, _, _, _, _)
Resolve(args, i, acc, all, conf, calls) ==
    IF i > Len(args) THEN [err |-> FALSE, pods |-> acc, calls |-> calls]
    ELSE IF args[i] = ReservedPodName
    THEN [err |-> ~conf, pods |-> IF conf THEN all ELSE <<>>,
          calls |-> Append(calls, Ev("list", NoPod, i, <<>>, "", FALSE, ~conf, 0, 0))]
    ELSE IF ~conf \/ args[i] \notin registry
    THEN [err |-> TRUE, pods |-> <<>>,
          calls |-> Append(calls, Ev("get", args[i], i, <<>>, "", FALSE, TRUE, 0, 0))]
    ELSE Resolve(args, i + 1, Append(acc, PodOf(args[i])), all, conf,
                 Append(calls, Ev("get", args[i], i, <<>>, "", FALSE, FALSE, 0, 0)))

\* The place of the first "all" in args, 0 if there is none.
FirstAll(args) ==
    IF \E i \in 1..Len(args) : args[i] = ReservedPodName
    THEN CHOOSE i \in 1..Len(args) :
            /\ args[i] = ReservedPodName
            /\ \A j \in 1..(i - 1) : args[j] # ReservedPodName
    ELSE 0

ArgLists ==
    UNION {[1..n -> Pods \cup {ReservedPodName}] : n \in 1..MaxArgs}

RunE(args, all, conf) ==
    /\ pc = "idle"
    /\ cmd' = "update"
    /\ allAt' = FirstAll(args)
    /\ LET r == Resolve(args, 1, <<>>, all, conf, <<>>)
       IN /\ log' = r.calls
          /\ IF r.err
             THEN /\ pc' = "done"
                  /\ result' = "err"
                  /\ UNCHANGED pods
             ELSE /\ pc' = "diff"
                  /\ pods' = r.pods
                  /\ UNCHANGED result
    /\ UNCHANGED <<registry, disk, idx, newEps, todo, cur, epi, disk0, registry0, fetched>>

(* ------------------------------ updatePods ----------------------------- *)
\* newEps[p] = eps
SetEps(m, p, eps) ==
    [q \in (DOMAIN m) \cup {p} |-> IF q = p THEN eps ELSE m[q]]

\* Mutant of DiffStep: a failing diff is skipped and the loop goes on.
DiffStepSkipsFailure ==
    /\ pc = "diff"
    /\ idx <= Len(pods)
    /\ LET p == pods[idx]
           r == NewEpisodes(disk[p])
       IN /\ log' = Append(log, Ev("diff", p, idx, <<>>, r.err, FALSE, r.err # "", 0, 0))
          /\ newEps' = IF r.err # "" THEN newEps ELSE SetEps(newEps, p, r.eps)
          /\ idx' = idx + 1
    /\ UNCHANGED <<registry, disk, pc, result, pods, todo, cur, epi, disk0, cmd, allAt, registry0, fetched>>

\* Mutant of DiffStep: a successful NewEpisodes removes the snapshot it read.
DiffStepConsumesSnapshot ==
    /\ pc = "diff"
    /\ idx <= Len(pods)
    /\ LET p == pods[idx]
           r == NewEpisodes(disk[p])
       IN /\ log' = Append(log, Ev("diff", p, idx, <<>>, r.err, FALSE, r.err # "", 0, 0))
          /\ IF r.err # ""
             THEN /\ pc' = "done"
                  /\ result' = "err"
                  /\ UNCHANGED <<idx, newEps, disk>>
             ELSE /\ newEps' = SetEps(newEps, p, r.eps)
                  /\ idx' = idx + 1
                  /\ disk' = [disk EXCEPT ![p].files =
                                [n \in (DOMAIN disk[p].files) \ {feedFileName} |->
                                    disk[p].files[n]]]
                  /\ UNCHANGED <<pc, result>>
    /\ UNCHANGED <<registry, pods, todo, cur, epi, disk0, cmd, allAt, registry0, fetched>>

\* One turn of the loop over pods: eps, err := p.NewEpisodes().
DiffStep ==
    /\ pc = "diff"
    /\ idx <= Len(pods)
    /\ LET p == pods[idx]
           r == NewEpisodes(disk[p])
       IN /\ log' = Append(log, Ev("diff", p, idx, <<>>, r.err, FALSE, r.err # "", 0, 0))
          /\ IF r.err # ""
             THEN /\ pc' = "done"
                  /\ result' = "err"
                  /\ UNCHANGED <<idx, newEps>>
             ELSE /\ newEps' = SetEps(newEps, p, r.eps)
                  /\ idx' = idx + 1
                  /\ UNCHANGED <<pc, result>>
    /\ UNCHANGED <<registry, disk, pods, todo, cur, epi, disk0, cmd, allAt, registry0, fetched>>

\* if len(newEps) == 0 { Println("No new episodes. Nothing to do."); return nil }
NothingToDo ==
    /\ pc = "diff"
    /\ idx > Len(pods)
    /\ Cardinality(DOMAIN newEps) = 0
    /\ log' = Append(log, Ev("nothing", NoPod, 0, <<>>, "", FALSE, FALSE, 0, 0))
    /\ pc' = "done"
    /\ result' = "ok"
    /\ UNCHANGED <<registry, disk, pods, idx, newEps, todo, cur, epi, disk0, cmd, allAt, registry0, fetched>>

RECURSIVE SumSize(_, _)
SumSize(eps, n) == IF n = 0 THEN 0 ELSE SumSize(eps, n - 1) + eps[n].Size

\* numEps and totalBytes, summed over the entries of newEps.
RECURSIVE numEps(_, _)
numEps(m, S) ==
    IF S = {} THEN 0
    ELSE LET p == CHOOSE q \in S : TRUE
         IN Len(m[p]) + numEps(m, S \ {p})

\* Mutant of totalBytes: the bytes transferred are summed, not File.Size.
RECURSIVE SumTransferred(_, _)
SumTransferred(eps, n) == IF n = 0 THEN 0 ELSE SumTransferred(eps, n - 1) + eps[n].Bytes

RECURSIVE totalBytesTransferred(_, _)
totalBytesTransferred(m, S) ==
    IF S = {} THEN 0
    ELSE LET p == CHOOSE q \in S : TRUE
         IN SumTransferred(m[p], Len(m[p])) + totalBytesTransferred(m, S \ {p})

RECURSIVE totalBytes(_, _)
totalBytes(m, S) ==
    IF S = {} THEN 0
    ELSE LET p == CHOOSE q \in S : TRUE
         IN SumSize(m[p], Len(m[p])) + totalBytes(m, S \ {p})

\* Mutant of Confirm: the answer is not looked at.
ConfirmIgnoresAnswer(answer) ==
    /\ pc = "diff"
    /\ idx > Len(pods)
    /\ Cardinality(DOMAIN newEps) # 0
    /\ log' = Append(log, Ev("prompt", NoPod, 0, <<>>,
                             IF answer THEN "yes" ELSE "no", FALSE, FALSE,
                             numEps(newEps, DOMAIN newEps),
                             totalBytes(newEps, DOMAIN newEps)))
    /\ pc' = "download"
    /\ todo' = DOMAIN newEps
    /\ UNCHANGED <<registry, disk, pods, idx, newEps, cur, epi, disk0, cmd, result, allAt, registry0, fetched>>

\* The summary, the prompt and its answer: if waitApproval(msg) { ... }
Confirm(answer) ==
    /\ pc = "diff"
    /\ idx > Len(pods)
    /\ Cardinality(DOMAIN newEps) # 0
    /\ log' = Append(log, Ev("prompt", NoPod, 0, <<>>,
                             IF answer THEN "yes" ELSE "no", FALSE, FALSE,
                             numEps(newEps, DOMAIN newEps),
                             totalBytes(newEps, DOMAIN newEps)))
    /\ IF answer
       THEN /\ pc' = "download"
            /\ todo' = DOMAIN newEps
            /\ UNCHANGED result
       ELSE /\ pc' = "done"
            /\ result' = "ok"
            /\ UNCHANGED todo
    /\ UNCHANGED <<registry, disk, pods, idx, newEps, cur, epi, disk0, cmd, allAt, registry0, fetched>>

\* Mutant of NextPodcast: the loop over newEps ends after its first entry.
NextPodcastDropsRest ==
    /\ pc = "download"
    /\ cur = NoPod
    /\ IF todo = {}
       THEN /\ pc' = "done"
            /\ result' = "ok"
            /\ UNCHANGED <<todo, cur, epi>>
       ELSE \E p \in todo :
            /\ todo' = {}
            /\ epi' = 1
            /\ cur' = IF Len(newEps[p]) = 0 THEN NoPod ELSE p
            /\ UNCHANGED <<pc, result>>
    /\ UNCHANGED <<registry, disk, pods, idx, newEps, log, disk0, cmd, allAt, registry0, fetched>>

\* The head of "for p, eps := range newEps": the map yields its entries in
\* an order of its own; after the last entry updatePods returns nil.
NextPodcast ==
    /\ pc = "download"
    /\ cur = NoPod
    /\ IF todo = {}
       THEN /\ pc' = "done"
            /\ result' = "ok"
            /\ UNCHANGED <<todo, cur, epi>>
       ELSE \E p \in todo :
            /\ todo' = todo \ {p}
            /\ epi' = 1
            /\ cur' = IF Len(newEps[p]) = 0 THEN NoPod ELSE p
            /\ UNCHANGED <<pc, result>>
    /\ UNCHANGED <<registry, disk, pods, idx, newEps, log, disk0, cmd, allAt, registry0, fetched>>

\* Mutant of rangeEps: the episodes are taken last to first.
rangeEpsBackwards(eps, i) == Len(eps) + 1 - i

\* for _, e := range eps: the index in eps of the episode that the i-th turn
\* of the loop of DownloadEpisodes takes.
rangeEps(eps, i) == i

\* One turn of the loop of DownloadEpisodes: download(e, pod.LocalStore).
DownloadStep(m, stop) ==
    /\ pc = "download"
    /\ cur # NoPod
    /\ LET at == rangeEps(newEps[cur], epi)
           e == newEps[cur][at]
       IN /\ disk[cur].exists \/ stop.at = "create"
          /\ disk' = [disk EXCEPT ![cur] = downloadDir(disk[cur], e, m, stop)]
          /\ newEps' = [newEps EXCEPT ![cur][at] = downloadEpisode(e, m, stop)]
          /\ log' = Append(log, Ev("download", cur, at, fileName(e),
                                   IF downloadRequests(e) THEN m.fetch ELSE "badurl",
                                   downloadCreates(e, m, stop),
                                   downloadErr(e, m, stop), stop.w, 0))
          /\ IF downloadErr(e, m, stop)
             THEN /\ pc' = "done"
                  /\ result' = "err"
                  /\ UNCHANGED <<cur, epi>>
             ELSE /\ epi' = epi + 1
                  /\ cur' = IF epi = Len(newEps[cur]) THEN NoPod ELSE cur
                  /\ UNCHANGED <<pc, result>>
    /\ UNCHANGED <<registry, pods, idx, todo, disk0, cmd, allAt, registry0, fetched>>

Next ==
    \/ \E name \in Pods \cup {ReservedPodName}, f \in FeedFetches,
          stop \in RefreshStops, addOk \in BOOLEAN : New(name, f, stop, addOk)
    \/ \E args \in ArgLists, all \in Listings(registry), conf \in BOOLEAN :
          RunE(args, all, conf)
    \/ DiffStep
    \/ NothingToDo
    \/ \E answer \in BOOLEAN : Confirm(answer)
    \/ NextPodcast
    \/ \E m \in MediaFetches : \E stop \in DownloadStops(m.n) : DownloadStep(m, stop)

Spec == Init /\ [][Next]_vars

(* ============================== claims ================================ *)
Events(op) == {i \in 1..Len(log) : log[i].op = op}

\* The episode a download event is about.
EpisodeOf(ev) == newEps[ev.pod][ev.k]

\* The final extension of a name is the text from its last dot on.
DotsOf(name) == {i \in 1..Len(name) : name[i] = "."}
LastDot(name) == CHOOSE i \in DotsOf(name) : \A j \in DotsOf(name) : j <= i
Stripped(name) ==
    IF DotsOf(name) = {} THEN name ELSE SubSeq(name, 1, LastDot(name) - 1)

\* The local index: the extension-stripped names of the directory entries
\* other than the snapshot file.
LocalIndex(dir) == {Stripped(n) : n \in (DOMAIN dir.files) \ {feedFileName}}

\* The episodes of the feed document in the snapshot of dir.
FeedOf(dir) == dir.files[feedFileName].entries[1].eps

\* R lists exactly the entries of F whose title is not in L, in F's order.
IsOrderedDifference(R, F, L) ==
    \E f \in [1..Len(R) -> 1..Len(F)] :
        /\ \A a, b \in 1..Len(R) : a < b => f[a] < f[b]
        /\ \A a \in 1..Len(R) : R[a] = F[f[a]]
        /\ {f[a] : a \in 1..Len(R)} = {i \in 1..Len(F) : F[i].Title \notin L}

\* C1: every diff NewEpisodes returned is exactly the episodes of the feed
\* document whose title is not in the local index, in feed order, none
\* dropped, duplicated or reordered (the diff phase writes nothing, so the
\* directory is the one the call read).
C1_NewEpisodesIsOrderedDifference ==
    pc = "diff" =>
        \A p \in DOMAIN newEps :
            IsOrderedDifference(newEps[p], FeedOf(disk[p]), LocalIndex(disk[p]))

\* C1 witness: a diff that keeps part of a feed and leaves part of it out.
C1_Witness ==
    /\ pc = "diff"
    /\ \E p \in DOMAIN newEps :
        /\ Len(newEps[p]) >= 1
        /\ Len(newEps[p]) < Len(FeedOf(disk[p]))

\* C2: every diff of a podcast is preceded, in the same run of update, by a
\* fetch of that podcast's feed.
C2_DiffAfterFetchInThisRun ==
    \A i \in Events("diff") :
        \E j \in Events("refresh") : j < i /\ log[j].pod = log[i].pod

\* update got past the diff loop: every pod.Get and every diff succeeded.
DiffsSucceeded ==
    /\ cmd = "update"
    /\ pc \in {"download", "done"}
    /\ \A i \in Events("get") \cup Events("diff") : ~log[i].err

RECURSIVE SumLen(_, _)
SumLen(m, S) ==
    IF S = {} THEN 0
    ELSE LET p == CHOOSE q \in S : TRUE IN Len(m[p]) + SumLen(m, S \ {p})

\* C3: when all diffs succeed and no podcast has a new episode, update
\* reports "nothing to do", returns success, never prompts and requests no
\* download.
C3_ZeroNewEpisodesNothingToDo ==
    (DiffsSucceeded /\ SumLen(newEps, DOMAIN newEps) = 0) =>
        /\ Events("nothing") # {}
        /\ Events("prompt") = {}
        /\ Events("download") = {}
        /\ pc = "done" /\ result = "ok"

\* C4: after download(E, dir) returned success, the local index read from
\* the same directory contains E's title.
C4_DownloadRoundTrip ==
    \A i \in Events("download") :
        ~log[i].err => EpisodeOf(log[i]).Title \in readStore(disk[log[i].pod])

\* C5: when the diff of the k-th target podcast fails, update returns the
\* error at once: k podcasts were diffed and no more, nothing was prompted,
\* printed as "nothing to do" or downloaded, and the disk is as it was.
C5_DiffFailureAbortsBatch ==
    \A i \in Events("diff") :
        log[i].err =>
            /\ pc = "done" /\ result = "err"
            /\ i = Len(log)
            /\ Cardinality(Events("diff")) = log[i].k
            /\ log[i].pod = pods[log[i].k]
            /\ Events("prompt") \cup Events("download") \cup Events("nothing") = {}
            /\ disk = disk0

\* C5 witness: the diff of the second target podcast failed after the first
\* one succeeded.
C5_Witness ==
    \E i \in Events("diff") : log[i].err /\ log[i].k = 2 /\ Len(pods) = 2

\* C6: when the confirmation is answered no, update returns success, has
\* requested no download and has left every storage directory as it was,
\* the snapshot file aside.
SameButSnapshot(d, e) ==
    /\ d.exists = e.exists
    /\ (DOMAIN d.files) \ {feedFileName} = (DOMAIN e.files) \ {feedFileName}
    /\ \A n \in (DOMAIN d.files) \ {feedFileName} : d.files[n] = e.files[n]

C6_DeclineWritesNothing ==
    \A i \in Events("prompt") :
        log[i].fetch = "no" =>
            /\ pc = "done" /\ result = "ok"
            /\ i = Len(log)
            /\ Events("download") = {}
            /\ \A p \in Pods : SameButSnapshot(disk[p], disk0[p])

\* C6 witness: a prompt for a non-empty diff was answered no.
C6_Witness ==
    \E i \in Events("prompt") : log[i].fetch = "no" /\ log[i].n > 0 /\ pc = "done"

\* The first place of podcast p in the target list.
FirstPos(p) == CHOOSE i \in 1..Len(pods) : pods[i] = p /\ \A j \in 1..(i - 1) : pods[j] # p

\* The downloads of one podcast are consecutive and follow its diff: each
\* download is of the next episode of the same podcast, or of the first
\* episode of a podcast not seen before, the one before it being complete.
DownloadsGroupedInDiffOrder ==
    \A i \in Events("download") :
        /\ log[i].pod \in DOMAIN newEps
        /\ log[i].k \in 1..Len(newEps[log[i].pod])
        /\ log[i].name = fileName(EpisodeOf(log[i]))
        /\ IF (i - 1) \in Events("download")
           THEN \/ /\ log[i - 1].pod = log[i].pod
                   /\ log[i].k = log[i - 1].k + 1
                \/ /\ log[i - 1].pod # log[i].pod
                   /\ log[i].k = 1
                   /\ log[i - 1].k = Len(newEps[log[i - 1].pod])
                   /\ \A j \in Events("download") : j < i => log[j].pod # log[i].pod
           ELSE /\ log[i].k = 1
                /\ \A j \in Events("download") : j >= i

\* C7 as claimed: the downloads take the podcasts in the order of the target
\* list, one podcast after the other, each in the order of its diff.
C7_DownloadsInTargetListOrder ==
    /\ DownloadsGroupedInDiffOrder
    /\ \A i, j \in Events("download") :
          i < j => FirstPos(log[i].pod) <= FirstPos(log[j].pod)

\* C7 amended: the downloads take the podcasts one after the other, each
\* target podcast at most once and in no fixed order, all new episodes of one
\* podcast before any of the next, each podcast in the order of its diff.
C7_DownloadsGroupedByPodcast ==
    /\ DownloadsGroupedInDiffOrder
    /\ \A i \in Events("download") : \E a \in 1..Len(pods) : pods[a] = log[i].pod

\* C7 witness: two episodes of one podcast were downloaded, then one of
\* another podcast.
C7_Witness ==
    \E i, j \in Events("download") :
        /\ j = i + 1
        /\ log[i].pod # log[j].pod
        /\ log[i].k = 2

\* Download event j wrote the file of the earlier download event i.
Overwrote(j, i) ==
    /\ j > i
    /\ log[j].created
    /\ log[j].pod = log[i].pod
    /\ log[j].name = log[i].name

\* C8 as claimed: when a download fails, update returns the error, requests
\* nothing more, and every file downloaded before is on disk unchanged.
C8_DownloadFailureKeepsEarlierFiles ==
    \A i \in Events("download") :
        log[i].err =>
            /\ pc = "done" /\ result = "err"
            /\ i = Len(log)
            /\ \A j \in Events("download") :
                  (j < i /\ ~log[j].err) =>
                      /\ log[j].name \in DOMAIN disk[log[j].pod].files
                      /\ disk[log[j].pod].files[log[j].name] = RawFile(log[j].n)

\* C8 amended: when a download fails, update returns the error, requests
\* nothing more, and every file downloaded before is still on disk, unchanged
\* unless a later download of the run (the failing one included) wrote to the
\* same file name.
C8_DownloadFailureKeepsEarlierFilesUnlessRewritten ==
    \A i \in Events("download") :
        log[i].err =>
            /\ pc = "done" /\ result = "err"
            /\ i = Len(log)
            /\ \A j \in Events("download") :
                  (j < i /\ ~log[j].err) =>
                      /\ log[j].name \in DOMAIN disk[log[j].pod].files
                      /\ (\A l \in Events("download") : ~Overwrote(l, j)) =>
                            disk[log[j].pod].files[log[j].name] = RawFile(log[j].n)

\* C8 witness: a download failed after its file was created, an earlier
\* download of another file having succeeded.
C8_Witness ==
    \E i, j \in Events("download") :
        /\ j < i
        /\ log[i].err /\ log[i].created
        /\ ~log[j].err
        /\ log[j].pod = log[i].pod
        /\ log[j].name # log[i].name

\* The snapshot file of a directory: absent, or its content.
SnapshotOf(dir) ==
    IF feedFileName \in DOMAIN dir.files THEN <<dir.files[feedFileName]>> ELSE <<>>

\* C9: whenever the feed fetch fails, by a transport error or by a response
\* of non-success status, refreshFeed returns an error and the stored
\* snapshot is byte for byte as before.
C9_FailedFetchLeavesSnapshot ==
    \A i \in Events("refresh") :
        log[i].fetch \in {"transport", "status404"} =>
            /\ log[i].err
            /\ SnapshotOf(disk[log[i].pod]) = SnapshotOf(disk0[log[i].pod])

\* C10: whenever the media GET ends in a transport error or a non-success
\* response, download returns an error and Episode.Bytes stays unset; a set
\* Episode.Bytes is the number of bytes written to the episode's file.
C10_FailedGetLeavesBytesUnset ==
    \A i \in Events("download") :
        /\ log[i].fetch \in {"transport", "status404"} =>
              (log[i].err /\ EpisodeOf(log[i]).Bytes = 0)
        /\ EpisodeOf(log[i]).Bytes # 0 =>
              (~log[i].err /\ EpisodeOf(log[i]).Bytes = log[i].n)

\* seq lists every element of S once.
IsListing(seq, S) ==
    /\ Len(seq) = Cardinality(S)
    /\ {seq[i] : i \in 1..Len(seq)} = S

\* The configuration file could be read by every pod.List and pod.Get.
ConfigRead ==
    /\ \A i \in Events("list") : ~log[i].err
    /\ \A i \in Events("get") : log[i].err => log[i].pod \notin registry

\* C11 as claimed: whenever "all" is among the arguments of update, at any
\* place, the registry is listed exactly once and the batch is the full list
\* of the managed podcasts.
C11_AllAnywhereUpdatesRegistry ==
    (cmd = "update" /\ allAt > 0 /\ ConfigRead) =>
        /\ Cardinality(Events("list")) = 1
        /\ IsListing(pods, registry)

\* C11 amended: whenever "all" is among the arguments of update and every
\* argument before the first "all" names a managed podcast (and the
\* configuration can be read), the registry is listed exactly once, after one
\* pod.Get per earlier argument, and the batch is the full list of the
\* managed podcasts, whatever the other arguments are.
C11_AllAfterManagedNamesUpdatesRegistry ==
    (/\ cmd = "update" /\ allAt > 0 /\ ConfigRead
     /\ \A i \in Events("get") : log[i].pod \in registry) =>
        /\ Cardinality(Events("list")) = 1
        /\ \A i \in Events("list") : log[i].k = allAt
        /\ Cardinality(Events("get")) = allAt - 1
        /\ IsListing(pods, registry)

\* C11 witness: "all" came second, after the name of a managed podcast, and
\* the batch holds the two managed podcasts.
C11_Witness ==
    /\ cmd = "update" /\ allAt = 2
    /\ Events("list") # {}
    /\ Len(pods) = 2

\* C12: NewEpisodes leaves the disk as it is, and a second call for the same
\* podcast, nothing having happened in between, succeeds with the list of the
\* first call.
C12_DiffIdempotent ==
    [][(pc = "diff" /\ idx <= Len(pods)) =>
          /\ disk' = disk
          /\ pods[idx] \in DOMAIN newEps =>
                /\ pc' = "diff"
                /\ newEps'[pods[idx]] = newEps[pods[idx]]]_vars

\* C12 witness: one podcast was diffed twice in a row, with new episodes.
C12_Witness ==
    \E i, j \in Events("diff") :
        /\ j = i + 1
        /\ log[i].pod = log[j].pod
        /\ ~log[i].err /\ ~log[j].err
        /\ Len(newEps[log[i].pod]) >= 1

\* The snapshot of a directory is absent or an archive of one document.
WellFormedSnapshot(dir) ==
    \A c \in {dir.files[n] : n \in (DOMAIN dir.files) \cap {feedFileName}} :
        c.kind = "zip" /\ Len(c.entries) = 1

\* C13 as claimed: after a refresh, successful or failing at any step, of a
\* directory whose snapshot was absent or well formed, the snapshot is the
\* single-entry archive of the document of the most recent successful
\* refresh: of this one if it succeeded, else the one found.
C13_SnapshotAlwaysOfLastSuccessfulRefresh ==
    \A i \in Events("refresh") :
        WellFormedSnapshot(disk0[log[i].pod]) =>
            SnapshotOf(disk[log[i].pod]) =
                IF log[i].err THEN SnapshotOf(disk0[log[i].pod])
                ELSE <<ZipFile(<<fetched>>)>>

\* C13 amended: after a refresh the directory holds one snapshot file at
\* most and its other files are as before; after a successful refresh the
\* snapshot is the single-entry archive of the complete response body; after
\* a refresh that failed before it created the file the snapshot is as
\* before; after one that failed later the file is cut short and no archive.
C13_SnapshotAfterRefresh ==
    \A i \in Events("refresh") :
        LET p == log[i].pod
        IN /\ SameButSnapshot([disk[p] EXCEPT !.exists = TRUE],
                              [disk0[p] EXCEPT !.exists = TRUE])
           /\ ~log[i].err => SnapshotOf(disk[p]) = <<ZipFile(<<fetched>>)>>
           /\ (log[i].err /\ ~log[i].created) => SnapshotOf(disk[p]) = SnapshotOf(disk0[p])
           /\ (log[i].err /\ log[i].created) =>
                 /\ Len(SnapshotOf(disk[p])) = 1
                 /\ SnapshotOf(disk[p])[1].kind # "zip"

\* C13 witness: a successful refresh replaced a snapshot of another document.
C13_Witness ==
    \E i \in Events("refresh") :
        /\ ~log[i].err
        /\ Len(SnapshotOf(disk0[log[i].pod])) = 1
        /\ SnapshotOf(disk0[log[i].pod])[1].kind = "zip"
        /\ SnapshotOf(disk0[log[i].pod]) # SnapshotOf(disk[log[i].pod])
        /\ fetched.ok

\* C14: the reserved name is never registered; New fetches a feed only for a
\* name that is neither reserved nor registered, and a call that fetched
\* nothing returned an error and changed neither disk nor registry; the
\* registry grows by the name of the call alone, and only after its refresh
\* succeeded.  (The registry is keyed by name: no two entries share one.)
C14_NewGuardsRegistry ==
    /\ ReservedPodName \notin registry
    /\ cmd = "add" =>
          /\ \A i \in Events("refresh") :
                log[i].pod # ReservedPodName /\ log[i].pod \notin registry0
          /\ Events("refresh") = {} =>
                (result = "err" /\ disk = disk0 /\ registry = registry0)
          /\ registry0 \subseteq registry
          /\ registry # registry0 =>
                /\ result = "ok"
                /\ \E i \in Events("refresh") :
                      ~log[i].err /\ registry = registry0 \cup {log[i].pod}

\* C14 witness: New registered a podcast next to one that was managed.
C14_Witness ==
    /\ cmd = "add" /\ result = "ok"
    /\ registry # registry0
    /\ registry0 # {}

\* The target podcasts of the batch.
Targets == {pods[i] : i \in 1..Len(pods)}

\* The episodes of a list as the feed gave them, nothing transferred yet.
AsParsed(eps) == [k \in 1..Len(eps) |-> [eps[k] EXCEPT !.Bytes = 0]]

\* The user approved and no diff and no download returned an error.
ApprovedNoFailure ==
    /\ cmd = "update"
    /\ \E i \in Events("prompt") : log[i].fetch = "yes"
    /\ \A i \in Events("diff") \cup Events("download") : ~log[i].err

\* Every episode of every target's diff was downloaded once, and nothing else.
AllDownloadedOnce ==
    /\ DOMAIN newEps = Targets
    /\ \A p \in Targets :
          /\ IsOrderedDifference(AsParsed(newEps[p]), FeedOf(disk0[p]), LocalIndex(disk0[p]))
          /\ \A k \in 1..Len(newEps[p]) :
                /\ Cardinality({i \in Events("download") :
                                    log[i].pod = p /\ log[i].k = k}) = 1
                /\ \A i \in Events("download") :
                      (log[i].pod = p /\ log[i].k = k) =>
                          /\ log[i].name = fileName(newEps[p][k])
                          /\ log[i].created
                          /\ newEps[p][k].Bytes = log[i].n
                /\ fileName(newEps[p][k]) \in DOMAIN disk[p].files
    /\ \A i \in Events("download") :
          log[i].pod \in Targets /\ log[i].k \in 1..Len(newEps[log[i].pod])
    /\ Cardinality(Events("download")) = SumLen(newEps, Targets)

\* The work the download phase has left: the return, the entries of newEps
\* not yet taken with their episodes, and the rest of the entry in hand.
WorkLeft ==
    (IF pc = "download" THEN 1 ELSE 0)
      + Cardinality(todo) + SumLen(newEps, todo)
      + (IF cur = NoPod THEN 0 ELSE Len(newEps[cur]) - epi + 1)

\* C15: once the user approved, every step of update takes from a finite
\* amount of work left, and when update has returned with no diff and no
\* download having failed it returned success, every episode of the diff of
\* every target podcast was downloaded exactly once, has its file in the
\* directory of its podcast and its transferred byte count recorded, and no
\* episode outside the diffs was requested.
C15_ApprovedDownloadsEveryNewEpisodeOnce ==
    [][/\ pc = "download" => (WorkLeft' < WorkLeft /\ WorkLeft' >= 0)
       /\ (pc' = "done" /\ ApprovedNoFailure') =>
             (result' = "ok" /\ AllDownloadedOnce')]_vars

\* C15 witness: an approved update returned success after it downloaded a
\* new episode of each of two podcasts.
C15_Witness ==
    /\ pc = "done" /\ result = "ok" /\ ApprovedNoFailure
    /\ \E i, j \in Events("download") : log[i].pod # log[j].pod

\* C16: update prompts at most once, after a successful diff of the podcast
\* at every place of the target list and after no failed diff, computes no
\* diff after the prompt, and every download comes after a prompt that was
\* answered yes.
C16_OnePromptAfterAllDiffsBeforeDownloads ==
    /\ Cardinality(Events("prompt")) <= 1
    /\ \A i \in Events("prompt") :
          /\ \A at \in 1..Len(pods) :
                \E j \in Events("diff") :
                    j < i /\ log[j].k = at /\ log[j].pod = pods[at] /\ ~log[j].err
          /\ \A j \in Events("diff") : j < i /\ ~log[j].err
    /\ \A d \in Events("download") :
          \E i \in Events("prompt") : i < d /\ log[i].fetch = "yes"

\* C16 witness: a download was requested after the diffs of two targets and
\* the prompt.
C16_Witness ==
    /\ Len(pods) = 2
    /\ Events("download") # {}
    /\ Cardinality(Events("diff")) = 2

\* The step is a call of download: it adds a download event to the log.
DownloadCalled ==
    /\ Len(log') = Len(log) + 1
    /\ log'[Len(log')].op = "download"

\* C17: download creates or truncates a file only when the media response
\* was opened; a call whose media URL is malformed or whose GET fails with a
\* transport error returns an error, creates no file and leaves the disk
\* exactly as it was.
C17_NoFileBeforeResponseOpened ==
    [][DownloadCalled =>
          LET ev == log'[Len(log')]
          IN /\ (ev.created \/ disk' # disk) => ev.fetch \in {"status200", "status404"}
             /\ ev.fetch \in {"badurl", "transport"} =>
                   /\ ev.err /\ ~ev.created
                   /\ disk' = disk
                   /\ pc' = "done" /\ result' = "err"]_vars

\* C17 witness: a download failed with a transport error after an earlier
\* download of the run had created its file.
C17_Witness ==
    \E i \in Events("download") :
        /\ log[i].fetch = "transport"
        /\ log[i].err
        /\ \E j \in Events("download") : j < i /\ log[j].created

\* C18: the snapshot file is written by refresh alone: whatever update
\* downloads, the snapshot of every podcast stays as the run found it.
C18_DownloadNeverWritesSnapshot ==
    cmd = "update" => \A p \in Pods : SnapshotOf(disk[p]) = SnapshotOf(disk0[p])

\* The snapshot of dir is a readable archive without entries, or one whose
\* document does not parse.
EmptyArchive(dir) ==
    /\ dir.exists
    /\ \E c \in {dir.files[n] : n \in (DOMAIN dir.files) \cap {feedFileName}} :
          c.kind = "zip" /\ Len(c.entries) = 0

UnparsedArchive(dir) ==
    /\ dir.exists
    /\ \E c \in {dir.files[n] : n \in (DOMAIN dir.files) \cap {feedFileName}} :
          c.kind = "zip" /\ Len(c.entries) >= 1 /\ ~c.entries[1].ok

\* C19: NewEpisodes is all or nothing.  Where update is about to call it, it
\* returns ErrArchiveEmpty for an archive without entries and the parse
\* error for a document that does not parse, an error always comes with no
\* episode list, and no error comes with the complete diff; the diffs that
\* were made reported the empty archive and the parse failure as such, and a
\* failed diff put no list into newEps.
C19_NewEpisodesAllOrNothing ==
    /\ (cmd = "update" /\ pc = "diff" /\ idx <= Len(pods)) =>
          LET d == disk[pods[idx]]
              r == NewEpisodes(d)
          IN /\ EmptyArchive(d) => r.err = "empty"
             /\ UnparsedArchive(d) => r.err = "parse"
             /\ r.err # "" => r.eps = <<>>
             /\ r.err = "" =>
                   IsOrderedDifference(r.eps, FeedOf(d), LocalIndex(d))
    /\ \A i \in Events("diff") :
          /\ EmptyArchive(disk0[log[i].pod]) <=> log[i].fetch = "empty"
          /\ UnparsedArchive(disk0[log[i].pod]) <=> log[i].fetch = "parse"
          /\ log[i].err <=> log[i].fetch # ""
          /\ log[i].err =>
                /\ pc = "done" /\ result = "err"
                /\ (\A j \in Events("diff") : log[j].pod = log[i].pod => j >= i)
                      => log[i].pod \notin DOMAIN newEps

\* C19 witness: a diff failed on an archive without entries, and one on a
\* document that does not parse after its first episode.
C19_Witness ==
    \E i \in Events("diff") :
        /\ log[i].fetch \in {"empty", "parse"}
        /\ log[i].pod \notin DOMAIN newEps
        /\ i > 1 /\ log[i - 1].op = "diff"

\* The new episodes of the target podcasts, each as (podcast, place in diff).
NewEpisodePairs == {x \in Targets \X (1..MaxFeedLen) : x[2] <= Len(newEps[x[1]])}

RECURSIVE SizeOver(_)
SizeOver(S) ==
    IF S = {} THEN 0
    ELSE LET x == CHOOSE y \in S : TRUE
         IN newEps[x[1]][x[2]].Size + SizeOver(S \ {x})

\* C20: the episode count of the prompt is the number of new episodes of the
\* target podcasts, each podcast's diff counted once in full, and the byte
\* total is the sum of the sizes the feed gives for exactly those episodes.
C20_PromptCountsAndSizes ==
    \A i \in Events("prompt") :
        /\ DOMAIN newEps = Targets
        /\ \A p \in Targets :
              IsOrderedDifference(AsParsed(newEps[p]), FeedOf(disk0[p]), LocalIndex(disk0[p]))
        /\ log[i].n = Cardinality(NewEpisodePairs)
        /\ log[i].total = SizeOver(NewEpisodePairs)

\* C20 witness: the prompt summed three or more new episodes of two
\* podcasts, of sizes that differ.
C20_Witness ==
    \E i \in Events("prompt") :
        /\ log[i].n >= 3
        /\ log[i].total >= 4
        /\ Cardinality(Targets) = 2

====
